---- MODULE Spec2Model ----
(***************************************************************************)
(* The tree builders of the TreeSelect native filter:                      *)
(*   buildTreeSelectData / normalizeTreeSelectValue  (Select/treeUtils.ts) *)
(*   buildTreeData / handleChange     (TreeSelect/TreeSelectFilterPlugin)  *)
(*   the value state and its two effects          (the same component)     *)
(*                                                                         *)
(* A JavaScript string is a sequence of characters, each a one-letter TLA+ *)
(* string.  The element "constructor" abbreviates the eleven letters of    *)
(* that word: it holds no delimiter and no white space, so split, trim and *)
(* join treat it as they treat the word.  A path segment that is exactly   *)
(* <<"constructor">> names a property every plain object inherits.         *)
(***************************************************************************)
EXTENDS Integers, Sequences, FiniteSets, TLC

VARIABLES
    options,      \* buildTreeSelectData: the options forEach has visited so far
    delimiter,    \* buildTreeSelectData: the delimiter argument
    root,         \* buildTreeSelectData: the local `root` record of InternalNodes
    objectTitle,  \* the `title` property of the global Object constructor
    selectPc,     \* buildTreeSelectData: "forEach" | "returned" | "threw"
    selectResult, \* buildTreeSelectData: the returned TreeSelectDataNode[]
    values,       \* buildTreeData: the paths forEach has visited so far
    roots,        \* buildTreeData: the local `roots` Map (insertion ordered)
    dataPc,       \* buildTreeData: "forEach" | "returned"
    dataResult,   \* buildTreeData: the returned TreeNode[]
    normInput,    \* normalizeTreeSelectValue: the argument
    normOutput,   \* normalizeTreeSelectValue: the value returned for it
    formData,     \* TreeSelectFilterPlugin: enableEmptyFilter, inverseSelection,
                  \* col (the first groupby column) and nativeFilterId
    value,        \* TreeSelectFilterPlugin: the `value` state of useState
    lastChange,   \* TreeSelectFilterPlugin: the payload of the last onChange
    dataMask,     \* TreeSelectFilterPlugin: the argument of the last setDataMask
    filterActive, \* TreeSelectFilterPlugin: the argument of the last setFilterActive
    filterStateValue,   \* props: filterState?.value
    filterStateRef,     \* props: the identity of filterState?.value when an array
    clearAllTrigger,    \* props: clearAllTrigger
    onClearAllComplete, \* props: the identity of the callback, or "undefined"
    clearAllComplete,   \* the last call of onClearAllComplete
    lastRender          \* the last step: mount, render or change, and the
                        \* effects that ran after it

selectVars == <<options, delimiter, root, objectTitle, selectPc, selectResult>>
dataVars == <<values, roots, dataPc, dataResult>>
normVars == <<normInput, normOutput>>
propsVars == <<filterStateValue, filterStateRef, clearAllTrigger, onClearAllComplete>>
pluginVars == <<formData, value, lastChange, dataMask, filterActive, propsVars,
                clearAllComplete, lastRender>>
vars == <<selectVars, dataVars, normVars, pluginVars>>

(***************************************************************************)
(* Bounds                                                                  *)
(***************************************************************************)
\* The longest input array a builder is run on.
MaxOptions == 2

\* The longest array of paths buildTreeData is run on.
MaxPaths == 3

\* The longest array a selection payload holds.
MaxItems == 2

(***************************************************************************)
(* JavaScript strings                                                      *)
(***************************************************************************)
WhiteSpace == {" "}

\* Position of a character in the collation localeCompare uses: white space,
\* then punctuation ("." before "/"), then digits, then letters.
CharRank(c) ==
    CASE c = " " -> 0
      [] c = "." -> 1
      [] c = "/" -> 2
      [] c = "0" -> 3
      [] c = "7" -> 4
      [] c = "a" -> 5
      [] c = "b" -> 6
      [] c = "constructor" -> 7
      [] c = "X" -> 8
      [] c = "Y" -> 9
      [] OTHER -> 10

\* a.localeCompare(b): negative, zero or positive.
RECURSIVE localeCompare(_, _)
localeCompare(a, b) ==
    IF a = <<>> /\ b = <<>> THEN 0
    ELSE IF a = <<>> THEN -1
    ELSE IF b = <<>> THEN 1
    ELSE IF CharRank(Head(a)) < CharRank(Head(b)) THEN -1
    ELSE IF CharRank(Head(a)) > CharRank(Head(b)) THEN 1
    ELSE localeCompare(Tail(a), Tail(b))

\* String.prototype.trim: white space removed at both ends.
RECURSIVE TrimStart(_)
TrimStart(s) ==
    IF s # <<>> /\ Head(s) \in WhiteSpace THEN TrimStart(Tail(s)) ELSE s

RECURSIVE TrimEnd(_)
TrimEnd(s) ==
    IF s # <<>> /\ s[Len(s)] \in WhiteSpace
    THEN TrimEnd(SubSeq(s, 1, Len(s) - 1))
    ELSE s

trim(s) == TrimEnd(TrimStart(s))

\* String.prototype.split on a one-character separator: the pieces between
\* the separators, empty pieces included ("" splits into [""]).
RECURSIVE SplitFrom(_, _, _)
SplitFrom(s, sep, piece) ==
    IF s = <<>> THEN <<piece>>
    ELSE IF Head(s) = sep THEN <<piece>> \o SplitFrom(Tail(s), sep, <<>>)
    ELSE SplitFrom(Tail(s), sep, Append(piece, Head(s)))

split(s, sep) == SplitFrom(s, sep, <<>>)

\* Array.prototype.filter(Boolean) on strings: the empty string is falsy.
RECURSIVE filterBoolean(_)
filterBoolean(pieces) ==
    IF pieces = <<>> THEN <<>>
    ELSE IF Head(pieces) = <<>> THEN filterBoolean(Tail(pieces))
    ELSE <<Head(pieces)>> \o filterBoolean(Tail(pieces))

\* Array.prototype.join.
RECURSIVE join(_, _)
join(pieces, sep) ==
    IF pieces = <<>> THEN <<>>
    ELSE IF Len(pieces) = 1 THEN pieces[1]
    ELSE pieces[1] \o <<sep>> \o join(Tail(pieces), sep)

\* String.prototype.includes for one character.
includes(s, c) == \E i \in 1..Len(s) : s[i] = c

(***************************************************************************)
(* treeUtils.ts: buildTreeSelectData                                       *)
(***************************************************************************)
\* The names a plain object ({}) inherits from Object.prototype: cursor[part]
\* is truthy for them although the record has no such own property.
InheritedNames == { <<"constructor">> }

\* No `title` was ever assigned on the inherited object.
Undefined == <<"undefined">>

NoNodes == [k \in {} |-> {}]

createNode(title, pathValue) ==
    [title |-> title, value |-> pathValue, key |-> pathValue, children |-> NoNodes]

\* walkParts with the title assigned only inside `if (!cursor[part])`: a
\* node that exists already keeps the title it has.
RECURSIVE walkPartsTitleOnCreate(_, _, _, _, _)
walkPartsTitleOnCreate(cursor, parts, index, label, delim) ==
    IF index > Len(parts)
    THEN [map |-> cursor, threw |-> FALSE, assigned |-> Undefined]
    ELSE
        LET part == parts[index]
            pathValue == join(SubSeq(parts, 1, index), delim)
        IN  IF part \in InheritedNames
            THEN [map |-> cursor, threw |-> index < Len(parts), assigned |-> Undefined]
            ELSE
                LET found == IF part \in DOMAIN cursor
                             THEN cursor[part]
                             ELSE createNode(IF index = Len(parts) THEN label ELSE part,
                                             pathValue)
                    below == walkPartsTitleOnCreate(found.children, parts, index + 1,
                                                    label, delim)
                    node == [found EXCEPT !.children = below.map]
                IN  [map |-> [k \in DOMAIN cursor \cup {part} |->
                                 IF k = part THEN node ELSE cursor[k]],
                     threw |-> below.threw,
                     assigned |-> below.assigned]

\* parts.forEach((part, index) => ...) from `index` on, with `cursor` the
\* record the walk has reached.  Gives the updated record, whether the walk
\* threw, and the title it assigned on the inherited object (if any).
\* An inherited name is found in the record without being an own property:
\* no node is created, the title goes to the inherited object, and cursor
\* becomes its `children`, which is undefined, so that the next part's
\* cursor[part] throws a TypeError.
RECURSIVE walkParts(_, _, _, _, _)
walkParts(cursor, parts, index, label, delim) ==
    IF index > Len(parts)
    THEN [map |-> cursor, threw |-> FALSE, assigned |-> Undefined]
    ELSE
        LET part == parts[index]
            pathValue == join(SubSeq(parts, 1, index), delim)
        IN  IF part \in InheritedNames
            THEN [map |-> cursor,
                  threw |-> index < Len(parts),
                  assigned |-> IF index = Len(parts) THEN label ELSE Undefined]
            ELSE
                LET found == IF part \in DOMAIN cursor
                             THEN cursor[part]
                             ELSE createNode(part, pathValue)
                    titled == IF index = Len(parts)
                              THEN [found EXCEPT !.title = label]
                              ELSE found
                    below == walkParts(titled.children, parts, index + 1, label, delim)
                    node == [titled EXCEPT !.children = below.map]
                IN  [map |-> [k \in DOMAIN cursor \cup {part} |->
                                 IF k = part THEN node ELSE cursor[k]],
                     threw |-> below.threw,
                     assigned |-> below.assigned]

\* sortByValue with the comparator's operands exchanged
\* (b.value.localeCompare(a.value)): descending order.
RECURSIVE sortByValueDescending(_)
sortByValueDescending(nodes) ==
    IF nodes = {} THEN <<>>
    ELSE LET first == CHOOSE n \in nodes :
                          \A m \in nodes : localeCompare(m.value, n.value) <= 0
         IN  <<first>> \o sortByValueDescending(nodes \ {first})

\* Array.prototype.sort with (a, b) => a.value.localeCompare(b.value): the
\* nodes of the set in ascending order (their values are pairwise distinct).
RECURSIVE sortByValue(_)
sortByValue(nodes) ==
    IF nodes = {} THEN <<>>
    ELSE LET first == CHOOSE n \in nodes :
                          \A m \in nodes : localeCompare(n.value, m.value) <= 0
         IN  <<first>> \o sortByValue(nodes \ {first})

RECURSIVE toSortedTree(_)
toSortedTree(nodeMap) ==
    LET sorted == sortByValue({ nodeMap[k] : k \in DOMAIN nodeMap })
    IN  [i \in 1..Len(sorted) |->
            [title |-> sorted[i].title,
             value |-> sorted[i].value,
             key |-> sorted[i].key,
             selectable |-> TRUE,
             children |-> toSortedTree(sorted[i].children)]]

\* forEachOption without the typeof guard: option.value.trim is not a
\* function on a number, and null has no properties, so the call throws.
forEachOptionNoTypeGuard(st, option, delim) ==
    IF option.type # "string" THEN [st EXCEPT !.threw = TRUE]
    ELSE
        LET parts == filterBoolean(split(trim(option.value), delim))
        IN  IF Len(parts) = 0 THEN st
            ELSE
                LET w == walkParts(st.root, parts, 1, option.label, delim)
                IN  [root |-> w.map,
                     objectTitle |-> IF w.assigned # Undefined
                                     THEN w.assigned
                                     ELSE st.objectTitle,
                     threw |-> w.threw]

\* The body of options.forEach(option => ...): `st` holds root, the title of
\* the inherited object and whether a TypeError has been thrown.  The three
\* early returns leave everything as it is.
forEachOption(st, option, delim) ==
    IF option.type # "string" THEN st
    ELSE
        LET trimmed == trim(option.value)
        IN  IF trimmed = <<>> THEN st
            ELSE
                LET parts == filterBoolean(split(trimmed, delim))
                IN  IF Len(parts) = 0 THEN st
                    ELSE
                        LET w == walkParts(st.root, parts, 1, option.label, delim)
                        IN  [root |-> w.map,
                             objectTitle |-> IF w.assigned # Undefined
                                             THEN w.assigned
                                             ELSE st.objectTitle,
                             threw |-> w.threw]

\* The parts the walk of an option visits: none for an option one of the
\* three early returns drops.
optionParts(option, delim) ==
    IF option.type # "string" THEN <<>>
    ELSE IF trim(option.value) = <<>> THEN <<>>
    ELSE filterBoolean(split(trim(option.value), delim))

\* The whole call: the fold of forEachOption over the array, stopped by a
\* throw, and then toSortedTree(root).
RECURSIVE forEachFrom(_, _, _, _)
forEachFrom(st, opts, i, delim) ==
    IF i > Len(opts) \/ st.threw THEN st
    ELSE forEachFrom(forEachOption(st, opts[i], delim), opts, i + 1, delim)

buildTreeSelectData(opts, delim) ==
    LET st == forEachFrom([root |-> NoNodes, objectTitle |-> Undefined, threw |-> FALSE],
                          opts, 1, delim)
    IN  IF st.threw
        THEN [pc |-> "threw", tree |-> <<>>]
        ELSE [pc |-> "returned", tree |-> toSortedTree(st.root)]

\* The inputs buildTreeSelectData is run on.
Delimiters == {"/", "."}

Labels == { <<"X">>, <<"Y">> }

PathTexts ==
    { <<>>,
      <<" ">>,
      <<"/">>,
      <<"a">>,
      <<"b">>,
      <<"a", "/", "b">>,
      <<"a", "/", "a">>,
      <<"b", "/", "a">>,
      <<" ", "a", "/", "b", " ">>,
      <<"a", "/", "/", "b", "/">>,
      <<"a", "/", "b", "/", "a">>,
      <<"a", ".", "b">>,
      <<"a", "b">>,
      <<"/", " ", "/">>,
      <<"constructor">>,
      <<"constructor", "/", "a">>,
      <<"a", "/", "constructor">> }

\* TreeOption: label, and a value that is a string, a number or null.
TreeOptions ==
    [label : Labels, type : {"string"}, value : PathTexts]
        \cup { [label |-> <<"X">>, type |-> "number", value |-> <<"7">>],
               [label |-> <<"X">>, type |-> "null", value |-> <<>>] }

InitSelect ==
    /\ options = <<>>
    /\ delimiter \in Delimiters
    /\ root = NoNodes
    /\ objectTitle = Undefined
    /\ selectPc = "forEach"
    /\ selectResult = <<>>

IdleSelect ==
    /\ options = <<>>
    /\ delimiter = "/"
    /\ root = NoNodes
    /\ objectTitle = Undefined
    /\ selectPc = "idle"
    /\ selectResult = <<>>

\* One iteration of options.forEach on the next element of the array.
ForEachOption(option) ==
    /\ selectPc = "forEach"
    /\ Len(options) < MaxOptions
    /\ LET st == forEachOption([root |-> root, objectTitle |-> objectTitle,
                                threw |-> FALSE], option, delimiter)
       IN  /\ root' = st.root
           /\ objectTitle' = st.objectTitle
           /\ selectPc' = IF st.threw THEN "threw" ELSE "forEach"
    /\ options' = Append(options, option)
    /\ UNCHANGED <<delimiter, selectResult, dataVars, normVars, pluginVars>>

\* The array is exhausted: return toSortedTree(root).
ReturnSortedTree ==
    /\ selectPc = "forEach"
    /\ selectResult' = toSortedTree(root)
    /\ selectPc' = "returned"
    /\ UNCHANGED <<options, delimiter, root, objectTitle, dataVars, normVars, pluginVars>>

(***************************************************************************)
(* TreeSelectFilterPlugin.tsx: buildTreeData                               *)
(***************************************************************************)
\* A Map<string, MutableNode> is the sequence of its nodes in insertion
\* order; a node is stored under its own value.
EmptyMap == <<>>

\* Map.prototype.get: the position of the entry, 0 when there is none.
mapIndex(container, nodeValue) ==
    IF \E i \in 1..Len(container) : container[i].value = nodeValue
    THEN CHOOSE i \in 1..Len(container) : container[i].value = nodeValue
    ELSE 0

\* ensureChild that sets the node again when it exists already
\* (delete, then set): the node moves to the end of the Map.
ensureChildMovesToEnd(container, nodeValue, title) ==
    IF mapIndex(container, nodeValue) # 0
    THEN LET at == mapIndex(container, nodeValue)
         IN  SubSeq(container, 1, at - 1)
                 \o SubSeq(container, at + 1, Len(container))
                 \o <<container[at]>>
    ELSE Append(container,
                [key |-> nodeValue, value |-> nodeValue, title |-> title,
                 childrenMap |-> EmptyMap])

\* ensureChild that sets a fresh node also when one exists already: the
\* children the node had are lost.
ensureChildOverwrites(container, nodeValue, title) ==
    LET fresh == [key |-> nodeValue, value |-> nodeValue, title |-> title,
                  childrenMap |-> EmptyMap]
    IN  IF mapIndex(container, nodeValue) # 0
        THEN [container EXCEPT ![mapIndex(container, nodeValue)] = fresh]
        ELSE Append(container, fresh)

\* ensureChild: the container with a node for nodeValue in it; a new node
\* is set at the end of the Map, an existing one stays where it is.
ensureChild(container, nodeValue, title) ==
    IF mapIndex(container, nodeValue) # 0
    THEN container
    ELSE Append(container,
                [key |-> nodeValue, value |-> nodeValue, title |-> title,
                 childrenMap |-> EmptyMap])

\* nextValueOf that takes the segment alone for the node's value.
nextValueSegmentOnly(assembled, segment, delim) == segment

\* `${assembled}/${segment}` for '/', and for '.' the segment alone while
\* assembled is still undefined.
nextValueOf(assembled, segment, delim) ==
    IF delim = "/" THEN assembled \o <<"/">> \o segment
    ELSE IF assembled # Undefined /\ assembled # <<>>
         THEN assembled \o <<".">> \o segment
         ELSE segment

\* segments.forEach(segment => ...) with currentMap the Map reached.
RECURSIVE walkSegments(_, _, _, _)
walkSegments(currentMap, segments, assembled, delim) ==
    IF segments = <<>> THEN currentMap
    ELSE
        LET segment == Head(segments)
            nextValue == nextValueOf(assembled, segment, delim)
            ensured == ensureChild(currentMap, nextValue, segment)
            at == mapIndex(ensured, nextValue)
        IN  [ensured EXCEPT ![at].childrenMap =
                walkSegments(ensured[at].childrenMap, Tail(segments), nextValue, delim)]

\* const delimiter = path.includes('/') ? '/' : '.'
detectDelimiter(path) == IF includes(path, "/") THEN "/" ELSE "."

\* The body of values.forEach(path => ...).
forEachPath(rootsMap, path) ==
    LET delim == detectDelimiter(path)
        segments == filterBoolean(split(path, delim))
    IN  IF Len(segments) = 0
        THEN ensureChild(rootsMap, path, path)
        ELSE walkSegments(rootsMap, segments,
                          IF delim = "/" THEN <<>> ELSE Undefined, delim)

\* The value of `assembled` after the i-th segment.
RECURSIVE assembledAt(_, _, _)
assembledAt(segments, i, delim) ==
    nextValueOf(IF i = 1
                THEN (IF delim = "/" THEN <<>> ELSE Undefined)
                ELSE assembledAt(segments, i - 1, delim),
                segments[i], delim)

\* The node values forEachPath hands to ensureChild for a path, root first.
pathNodeValues(path) ==
    LET delim == detectDelimiter(path)
        segments == filterBoolean(split(path, delim))
    IN  IF Len(segments) = 0 THEN <<path>>
        ELSE [i \in 1..Len(segments) |-> assembledAt(segments, i, delim)]

RECURSIVE convertNodes(_)
convertNodes(container) ==
    [i \in 1..Len(container) |->
        [key |-> container[i].key,
         value |-> container[i].value,
         title |-> container[i].title,
         children |-> convertNodes(container[i].childrenMap)]]

RECURSIVE forEachPathFrom(_, _, _)
forEachPathFrom(rootsMap, paths, i) ==
    IF i > Len(paths) THEN rootsMap
    ELSE forEachPathFrom(forEachPath(rootsMap, paths[i]), paths, i + 1)

buildTreeData(paths) == convertNodes(forEachPathFrom(EmptyMap, paths, 1))

\* The paths buildTreeData is run on: the non-empty strings the options
\* memo keeps (normalizeValue, then filter(item => !!item)).
DataPaths ==
    { <<"a">>,
      <<"b">>,
      <<"a", "/", "b">>,
      <<"a", "/", "a">>,
      <<"b", "/", "a">>,
      <<"/", "a", "/", "b">>,
      <<"a", "/", "b", "/", "a">>,
      <<"a", ".", "b">>,
      <<"a", ".", "a">>,
      <<"b", ".", "a">>,
      <<"a", ".", "b", ".", "a">>,
      <<"a", ".", "b", "/", "a">>,
      <<".", "a", ".", ".", "b">>,
      <<"/">>,
      <<".">>,
      <<".", ".">>,
      <<" ", "a">> }

InitData ==
    /\ values = <<>>
    /\ roots = EmptyMap
    /\ dataPc = "forEach"
    /\ dataResult = <<>>

IdleData ==
    /\ values = <<>>
    /\ roots = EmptyMap
    /\ dataPc = "idle"
    /\ dataResult = <<>>

\* One iteration of values.forEach on the next element of the array.
ForEachPath(path) ==
    /\ dataPc = "forEach"
    /\ Len(values) < MaxPaths
    /\ roots' = forEachPath(roots, path)
    /\ values' = Append(values, path)
    /\ UNCHANGED <<dataPc, dataResult, selectVars, normVars, pluginVars>>

\* The array is exhausted: return [...roots.values()].map(convertNode).
ReturnConverted ==
    /\ dataPc = "forEach"
    /\ dataResult' = convertNodes(roots)
    /\ dataPc' = "returned"
    /\ UNCHANGED <<values, roots, selectVars, normVars, pluginVars>>

(***************************************************************************)
(* JavaScript values of a selection payload                                *)
(***************************************************************************)
JsUndefined == [t |-> "undefined"]
JsNull == [t |-> "null"]
JsString(s) == [t |-> "string", s |-> s]
JsNumber(n) == [t |-> "number", n |-> n]
JsBoolean(b) == [t |-> "boolean", b |-> b]
JsArray(items) == [t |-> "array", items |-> items]

\* typeof v === 'string' || typeof v === 'number'
isStringOrNumber(v) == v.t \in {"string", "number"}

\* String(v) for the values a payload holds.
String(v) ==
    CASE v.t = "string" -> v.s
      [] v.t = "number" -> IF v.n = 0 THEN <<"0">> ELSE <<"7">>
      [] v.t = "boolean" -> IF v.b THEN <<"t", "r", "u", "e">>
                            ELSE <<"f", "a", "l", "s", "e">>
      [] v.t = "null" -> <<"n", "u", "l", "l">>
      [] OTHER -> <<"u", "n", "d", "e", "f", "i", "n", "e", "d">>

\* The truthiness of a value in a condition.
truthy(v) ==
    CASE v.t = "string" -> v.s # <<>>
      [] v.t = "number" -> v.n # 0
      [] v.t = "boolean" -> v.b
      [] v.t = "array" -> TRUE
      [] OTHER -> FALSE

(***************************************************************************)
(* treeUtils.ts: normalizeTreeSelectValue                                  *)
(***************************************************************************)
\* value.filter(v => typeof v === 'string' || typeof v === 'number')
RECURSIVE filterStringOrNumber(_)
filterStringOrNumber(items) ==
    IF items = <<>> THEN <<>>
    ELSE IF isStringOrNumber(Head(items))
         THEN <<Head(items)>> \o filterStringOrNumber(Tail(items))
         ELSE filterStringOrNumber(Tail(items))

\* normalizeTreeSelectValue that returns an array as it is, unfiltered.
normalizeUnfiltered(v) ==
    IF v.t = "undefined" THEN JsUndefined
    ELSE IF v.t = "null" THEN JsNull
    ELSE IF v.t = "array" THEN v
    ELSE IF isStringOrNumber(v) THEN JsArray(<<v>>)
    ELSE JsNull

normalizeTreeSelectValue(v) ==
    IF v.t = "undefined" THEN JsUndefined
    ELSE IF v.t = "null" THEN JsNull
    ELSE IF v.t = "array" THEN JsArray(filterStringOrNumber(v.items))
    ELSE IF isStringOrNumber(v) THEN JsArray(<<v>>)
    ELSE JsNull

\* The payloads: scalars, and arrays of at most MaxItems elements.
PayloadElements ==
    { JsString(<<"a", "/", "b">>), JsString(<<"a", "/", "a">>), JsString(<<>>),
      JsNumber(7), JsNumber(0), JsNull, JsBoolean(TRUE) }

PayloadArrays ==
    UNION { [1..n -> PayloadElements] : n \in 0..MaxItems }

Payloads ==
    PayloadElements \cup {JsUndefined, JsBoolean(FALSE)}
        \cup { JsArray(items) : items \in PayloadArrays }

NotCalled == [t |-> "not called"]

InitNormalize ==
    /\ normInput \in Payloads
    /\ normOutput = NotCalled

IdleNormalize ==
    /\ normInput = JsUndefined
    /\ normOutput = NotCalled

\* A call of normalizeTreeSelectValue(normInput).
CallNormalize ==
    /\ normOutput = NotCalled
    /\ normOutput' = normalizeTreeSelectValue(normInput)
    /\ UNCHANGED <<normInput, selectVars, dataVars, pluginVars>>

\* The caller takes the next payload.
NextPayload(v) ==
    /\ normOutput # NotCalled
    /\ normInput' = v
    /\ normOutput' = NotCalled
    /\ UNCHANGED <<selectVars, dataVars, pluginVars>>

(***************************************************************************)
(* TreeSelectFilterPlugin.tsx: handleChange                                *)
(***************************************************************************)
\* nextValue.map(item => String(item))
mapString(items) == [i \in 1..Len(items) |-> JsString(String(items[i]))]

\* handleChange normalizing with treeUtils' normalizeTreeSelectValue.
normalizedByTreeUtils(nextValue) == normalizeTreeSelectValue(nextValue)

\* Array.isArray(nextValue) ? nextValue.map(...) : nextValue ?
\* [String(nextValue)] : undefined
normalizedOf(nextValue) ==
    IF nextValue.t = "array" THEN JsArray(mapString(nextValue.items))
    ELSE IF truthy(nextValue) THEN JsArray(<<JsString(String(nextValue))>>)
    ELSE JsUndefined

\* normalized?.length, as a number, or undefined.
lengthOf(normalized) ==
    IF normalized.t = "array" THEN JsNumber(Len(normalized.items)) ELSE JsUndefined

\* normalized?.join(', ')
RECURSIVE joinComma(_)
joinComma(items) ==
    IF items = <<>> THEN <<>>
    ELSE IF Len(items) = 1 THEN String(items[1])
    ELSE String(items[1]) \o <<",", " ">> \o joinComma(Tail(items))

labelOf(normalized) ==
    IF normalized.t = "array" THEN JsString(joinComma(normalized.items))
    ELSE JsUndefined

\* emptyFilterOf without the inverseSelection operand.
emptyFilterIgnoresInverse(fd, normalized) ==
    fd.enableEmptyFilter /\ ~truthy(lengthOf(normalized))

\* enableEmptyFilter && !inverseSelection && !normalized?.length
emptyFilterOf(fd, normalized) ==
    fd.enableEmptyFilter /\ ~fd.inverseSelection /\ ~truthy(lengthOf(normalized))

\* The object handed to setDataMask; extraFormData records the arguments of
\* getSelectExtraFormData, which is called only when col is set.
dataMaskOf(fd, normalized) ==
    [filterState |->
        [value |-> normalized,
         label |-> labelOf(normalized),
         excludeFilterValues |-> fd.inverseSelection],
     extraFormData |->
        IF fd.col # Undefined
        THEN [col |-> fd.col,
              value |-> normalized,
              emptyFilter |-> emptyFilterOf(fd, normalized),
              inverseSelection |-> fd.inverseSelection]
        ELSE [empty |-> TRUE]]

NativeFilterIds == {"F1", "F2"}

FormDatas ==
    [enableEmptyFilter : BOOLEAN, inverseSelection : BOOLEAN,
     col : {Undefined, <<"c">>}, nativeFilterId : NativeFilterIds]

(***************************************************************************)
(* TreeSelectFilterPlugin.tsx: the value state and its effects             *)
(***************************************************************************)
\* Object.is on two dependency values: arrays are the same when they are
\* the same object, anything else when it is the same value.
objectIs(v1, ref1, v2, ref2) == v1 = v2 /\ (v1.t = "array" => ref1 = ref2)

\* The effects in the order opposite to their declaration: the clear effect
\* and then the sync effect.
effectsValueClearFirst(syncRuns, clearRuns, trigger, fsv, current) ==
    LET afterClear == IF clearRuns /\ trigger THEN JsUndefined ELSE current
    IN  IF syncRuns THEN fsv ELSE afterClear

\* The `value` state once the effects of a render have run: the sync effect
\* (setValue(filterState?.value)) and then the clear effect (setValue(
\* undefined) if clearAllTrigger), each only if it runs; the last setValue
\* of the batch is the new state.
effectsValue(syncRuns, clearRuns, trigger, fsv, current) ==
    LET afterSync == IF syncRuns THEN fsv ELSE current
    IN  IF clearRuns /\ trigger THEN JsUndefined ELSE afterSync

\* onClearAllComplete?.(formData.nativeFilterId) of the clear effect.
clearAllCompleteCall(clearRuns, trigger, callback, nativeFilterId) ==
    IF clearRuns /\ trigger /\ callback # "undefined"
    THEN [callback |-> callback, nativeFilterId |-> nativeFilterId]
    ELSE NotCalled

\* The values the filterState.value prop takes.
FilterStateValues ==
    {JsUndefined, JsArray(<<JsString(<<"a", "/", "b">>)>>), JsArray(<<JsString(<<"b">>)>>)}

\* Two identities are enough to tell a new array from the previous one.
Refs == {1, 2}

Callbacks == {"undefined", "f", "g"}

\* The payloads of onChange while the effects are looked at.
ChangePayloads ==
    {JsUndefined, JsArray(<<>>), JsArray(<<JsString(<<"a">>)>>), JsString(<<"a", "/", "b">>)}

\* The first render: useState(filterState?.value), then both effects.
Mounted(fd, fsv, ref, trigger, callback) ==
    /\ formData = fd
    /\ filterStateValue = fsv
    /\ filterStateRef = ref
    /\ clearAllTrigger = trigger
    /\ onClearAllComplete = callback
    /\ value = effectsValue(TRUE, TRUE, trigger, fsv, fsv)
    /\ clearAllComplete = clearAllCompleteCall(TRUE, trigger, callback, fd.nativeFilterId)
    /\ lastRender = [step |-> "mount", sync |-> TRUE, clear |-> TRUE]
    /\ lastChange = NotCalled
    /\ dataMask = NotCalled
    /\ filterActive = NotCalled

\* A plugin mounted without a clear trigger, for any form data.
InitPlugin ==
    \E fd \in FormDatas :
    \E fsv \in {JsUndefined, JsArray(<<JsString(<<"a", "/", "b">>)>>)} :
        /\ fd.nativeFilterId = "F1"
        /\ Mounted(fd, fsv, 1, FALSE, "undefined")

\* A plugin mounted with any props.
MountPlugin ==
    \E id \in NativeFilterIds, fsv \in FilterStateValues,
       trigger \in BOOLEAN, callback \in Callbacks :
        Mounted([enableEmptyFilter |-> TRUE, inverseSelection |-> FALSE,
                 col |-> <<"c">>, nativeFilterId |-> id],
                fsv, 1, trigger, callback)

IdlePlugin ==
    /\ formData = [enableEmptyFilter |-> FALSE, inverseSelection |-> FALSE,
                   col |-> Undefined, nativeFilterId |-> "F1"]
    /\ value = JsUndefined
    /\ lastChange = NotCalled
    /\ dataMask = NotCalled
    /\ filterActive = NotCalled
    /\ filterStateValue = JsUndefined
    /\ filterStateRef = 1
    /\ clearAllTrigger = FALSE
    /\ onClearAllComplete = "undefined"
    /\ clearAllComplete = NotCalled
    /\ lastRender = [step |-> "none", sync |-> FALSE, clear |-> FALSE]

\* onChange of the TreeSelect: handleChange(nextValue), and the render the
\* new state causes, after which no effect runs (no dependency changed).
HandleChange(nextValue) ==
    /\ lastChange' = nextValue
    /\ value' = normalizedOf(nextValue)
    /\ dataMask' = dataMaskOf(formData, normalizedOf(nextValue))
    /\ filterActive' = JsBoolean(truthy(lengthOf(normalizedOf(nextValue))))
    /\ lastRender' = [step |-> "change", sync |-> FALSE, clear |-> FALSE]
    /\ UNCHANGED <<formData, propsVars, clearAllComplete, selectVars, dataVars,
                   normVars>>

\* The parent renders the plugin with props that may differ from the last
\* ones; then the effects whose dependencies changed run, in the order of
\* their declaration.  Neither effect calls setDataMask or setFilterActive:
\* the step leaves no argument of theirs behind.
Render(fsv, ref, trigger, nativeFilterId, callback) ==
    LET syncRuns == ~objectIs(filterStateValue, filterStateRef, fsv, ref)
        clearRuns == \/ clearAllTrigger # trigger
                     \/ formData.nativeFilterId # nativeFilterId
                     \/ onClearAllComplete # callback
        call == clearAllCompleteCall(clearRuns, trigger, callback, nativeFilterId)
    IN  /\ fsv.t # "array" => ref = 1
        /\ filterStateValue' = fsv
        /\ filterStateRef' = ref
        /\ clearAllTrigger' = trigger
        /\ onClearAllComplete' = callback
        /\ formData' = [formData EXCEPT !.nativeFilterId = nativeFilterId]
        /\ value' = effectsValue(syncRuns, clearRuns, trigger, fsv, value)
        /\ clearAllComplete' = IF call = NotCalled THEN clearAllComplete ELSE call
        /\ lastRender' = [step |-> "render", sync |-> syncRuns, clear |-> clearRuns]
        /\ lastChange' = NotCalled
        /\ dataMask' = NotCalled
        /\ filterActive' = NotCalled
        /\ UNCHANGED <<selectVars, dataVars, normVars>>

(***************************************************************************)
(* Specifications                                                          *)
(***************************************************************************)
\* A run of buildTreeSelectData.
SelectRun == InitSelect /\ IdleData /\ IdleNormalize /\ IdlePlugin

NextSelect ==
    \/ \E option \in TreeOptions : ForEachOption(option)
    \/ ReturnSortedTree

SpecSelect == SelectRun /\ [][NextSelect]_vars

\* A run of buildTreeData.
DataRun == IdleSelect /\ InitData /\ IdleNormalize /\ IdlePlugin

NextData ==
    \/ \E path \in DataPaths : ForEachPath(path)
    \/ ReturnConverted

SpecData == DataRun /\ [][NextData]_vars

\* Calls of normalizeTreeSelectValue.
NormalizeRun == IdleSelect /\ IdleData /\ InitNormalize /\ IdlePlugin

NextNormalize ==
    \/ CallNormalize
    \/ \E v \in Payloads : NextPayload(v)

SpecNormalize == NormalizeRun /\ [][NextNormalize]_vars

\* A mounted TreeSelectFilterPlugin.
PluginRun == IdleSelect /\ IdleData /\ IdleNormalize /\ InitPlugin

NextPlugin == \E nextValue \in Payloads : HandleChange(nextValue)

SpecPlugin == PluginRun /\ [][NextPlugin]_vars

\* A mounted TreeSelectFilterPlugin whose parent renders it again and again.
EffectsRun == IdleSelect /\ IdleData /\ IdleNormalize /\ MountPlugin

NextEffects ==
    \/ \E fsv \in FilterStateValues, ref \in Refs, trigger \in BOOLEAN,
          nativeFilterId \in NativeFilterIds, callback \in Callbacks :
            Render(fsv, ref, trigger, nativeFilterId, callback)
    \/ \E nextValue \in ChangePayloads : HandleChange(nextValue)

SpecEffects == EffectsRun /\ [][NextEffects]_vars

\* A run of either builder.
Init == SelectRun \/ DataRun

Next ==
    \/ \E option \in TreeOptions : ForEachOption(option)
    \/ ReturnSortedTree
    \/ \E path \in DataPaths : ForEachPath(path)
    \/ ReturnConverted

Spec == Init /\ [][Next]_vars

(***************************************************************************)
(* Trees                                                                   *)
(***************************************************************************)
\* Every node of a returned tree, with the value of its parent (Undefined
\* for a root), its depth (1 for a root) and its position (the indices from
\* the root array down), so that two equal nodes stay two.
RECURSIVE Flatten(_, _, _, _)
Flatten(tree, parent, depth, pos) ==
    UNION { {[node |-> tree[i], parent |-> parent, depth |-> depth,
              pos |-> Append(pos, i)]}
                \cup Flatten(tree[i].children, tree[i].value, depth + 1,
                             Append(pos, i)) : i \in 1..Len(tree) }

NodesOf(tree) == Flatten(tree, Undefined, 1, <<>>)

\* The root array and the children array of every node.
SiblingLists(tree) == {tree} \cup { e.node.children : e \in NodesOf(tree) }

NoEqualSiblings(tree) ==
    \A l \in SiblingLists(tree) :
        \A i, j \in 1..Len(l) : i # j => l[i].value # l[j].value

\* The number of nodes of the tree that carry the value v.
CountOf(tree, v) == Cardinality({ e \in NodesOf(tree) : e.node.value = v })

\* parts[1..i] joined by the delimiter.
PrefixOf(parts, i, delim) == join(SubSeq(parts, 1, i), delim)

(***************************************************************************)
(* Claims                                                                  *)
(***************************************************************************)
\* C1: whenever a builder returns, its tree holds exactly one node for every
\* prefix of every input path, and no two siblings carry the same value.
\* The code breaks this: buildTreeSelectData creates no node for a segment
\* named like an inherited property.
C1_ExactlyOneNodePerPrefix ==
    /\ selectPc = "returned" =>
          /\ NoEqualSiblings(selectResult)
          /\ \A k \in 1..Len(options) :
                LET parts == optionParts(options[k], delimiter)
                IN  \A i \in 1..Len(parts) :
                        CountOf(selectResult, PrefixOf(parts, i, delimiter)) = 1
    /\ dataPc = "returned" =>
          /\ NoEqualSiblings(dataResult)
          /\ \A k \in 1..Len(values) :
                LET nodeValues == pathNodeValues(values[k])
                IN  \A i \in 1..Len(nodeValues) :
                        CountOf(dataResult, nodeValues[i]) = 1

\* C2: when buildTreeSelectData returns, every prefix p1..pi of every usable
\* option is a node at depth i with key = value = the joined prefix, under
\* the node of p1..p(i-1), selectable; and the tree holds no other node.
\* The code breaks this for segments named like an inherited property.
C2_NodesAreThePrefixes ==
    selectPc = "returned" =>
        /\ \A k \in 1..Len(options) :
              LET parts == optionParts(options[k], delimiter)
              IN  \A i \in 1..Len(parts) :
                    \E e \in NodesOf(selectResult) :
                        /\ e.depth = i
                        /\ e.node.value = PrefixOf(parts, i, delimiter)
                        /\ e.node.key = PrefixOf(parts, i, delimiter)
                        /\ e.parent = IF i = 1 THEN Undefined
                                      ELSE PrefixOf(parts, i - 1, delimiter)
                        /\ e.node.selectable
        /\ \A e \in NodesOf(selectResult) :
              \E k \in 1..Len(options) :
                  LET parts == optionParts(options[k], delimiter)
                  IN  /\ e.depth <= Len(parts)
                      /\ e.node.value = PrefixOf(parts, e.depth, delimiter)

\* C3: when buildTreeData returns, the node at depth i of every input path
\* with segments has key = value = its first i segments joined by the
\* detected delimiter, under the node of the first i-1 segments.
\* The code breaks this: a '/' path gets a leading '/' on every value.
C3_ValueIsJoinedSegments ==
    dataPc = "returned" =>
        \A k \in 1..Len(values) :
            LET delim == IF includes(values[k], "/") THEN "/" ELSE "."
                segments == filterBoolean(split(values[k], delim))
            IN  \A i \in 1..Len(segments) :
                    \E e \in NodesOf(dataResult) :
                        /\ e.depth = i
                        /\ e.node.value = PrefixOf(segments, i, delim)
                        /\ e.node.key = PrefixOf(segments, i, delim)
                        /\ e.parent = IF i = 1 THEN Undefined
                                      ELSE PrefixOf(segments, i - 1, delim)

\* C4: normalizeTreeSelectValue gives undefined for undefined, null for
\* null, the one-element array of a string or number, the string and number
\* elements of an array in their order, and null for anything else.
C4_NormalizeMatchesReference ==
    normOutput # NotCalled =>
        /\ normInput.t = "undefined" => normOutput = JsUndefined
        /\ normInput.t = "null" => normOutput = JsNull
        /\ normInput.t \in {"string", "number"} => normOutput = JsArray(<<normInput>>)
        /\ normInput.t = "array" =>
              /\ normOutput.t = "array"
              /\ normOutput.items =
                    SelectSeq(normInput.items,
                              LAMBDA v : v.t = "string" \/ v.t = "number")
        /\ normInput.t \notin {"undefined", "null", "string", "number", "array"} =>
              normOutput = JsNull

\* C4 witness: an array was normalized and lost some, not all, elements.
C4_Witness ==
    /\ normInput.t = "array"
    /\ normOutput.t = "array"
    /\ Len(normOutput.items) > 0
    /\ Len(normOutput.items) < Len(normInput.items)

\* C5 as stated: after a change, the local value and filterState.value are
\* normalizeTreeSelectValue of the raw payload.
C5_StoresNormalizeSelection ==
    lastChange # NotCalled =>
        /\ value = normalizeTreeSelectValue(lastChange)
        /\ dataMask.filterState.value = normalizeTreeSelectValue(lastChange)

\* C5 amended: after a change, the local value and filterState.value are
\* both: for an array, the strings of all its elements in order; for a
\* truthy scalar, the one-element array of its string; otherwise undefined.
C5_StoresOwnNormalization ==
    lastChange # NotCalled =>
        /\ dataMask.filterState.value = value
        /\ lastChange.t = "array" =>
              /\ value.t = "array"
              /\ Len(value.items) = Len(lastChange.items)
              /\ \A i \in 1..Len(value.items) :
                    value.items[i] = JsString(String(lastChange.items[i]))
        /\ lastChange.t # "array" =>
              IF \/ lastChange.t = "string" /\ lastChange.s # <<>>
                 \/ lastChange.t = "number" /\ lastChange.n # 0
                 \/ lastChange.t = "boolean" /\ lastChange.b
              THEN value = JsArray(<<JsString(String(lastChange))>>)
              ELSE value = JsUndefined

\* C5 witness: an array payload with a number and a null in it was stored
\* as their strings.
C5_Witness ==
    /\ lastChange # NotCalled
    /\ lastChange.t = "array"
    /\ \E i, j \in 1..Len(lastChange.items) :
          /\ lastChange.items[i].t = "number"
          /\ lastChange.items[j].t = "null"
          /\ value.items[i].t = "string"
          /\ value.items[j].t = "string"

\* C6: when buildTreeSelectData returns, the roots and the children of
\* every node are in ascending order of value.
C6_SiblingsSortedByValue ==
    selectPc = "returned" =>
        \A l \in SiblingLists(selectResult) :
            \A i, j \in 1..Len(l) :
                i < j => localeCompare(l[i].value, l[j].value) < 0

\* C6 witness: two roots returned in the order opposite to the input's.
C6_Witness ==
    /\ selectPc = "returned"
    /\ Len(options) = 2
    /\ Len(selectResult) = 2
    /\ selectResult[1].value = options[2].value
    /\ selectResult[2].value = options[1].value

\* The first input path whose walk visits the node value v.
FirstSeen(v) ==
    CHOOSE k \in 1..Len(values) :
        /\ \E i \in 1..Len(pathNodeValues(values[k])) : pathNodeValues(values[k])[i] = v
        /\ \A j \in 1..(k - 1) :
              \A i \in 1..Len(pathNodeValues(values[j])) : pathNodeValues(values[j])[i] # v

\* C7: when buildTreeData returns, the roots and the children of every node
\* are in the order in which the input first visited them.
C7_SiblingsInFirstSeenOrder ==
    dataPc = "returned" =>
        \A l \in SiblingLists(dataResult) :
            \A i, j \in 1..Len(l) :
                i < j => FirstSeen(l[i].value) < FirstSeen(l[j].value)

\* C7 witness: the third path re-used the root the first path made, after
\* the second path had made another root, and the first root stayed first.
C7_Witness ==
    /\ dataPc = "returned"
    /\ Len(values) = 3
    /\ Len(dataResult) = 2
    /\ pathNodeValues(values[1])[1] = dataResult[1].value
    /\ pathNodeValues(values[2])[1] = dataResult[2].value
    /\ pathNodeValues(values[3])[1] = dataResult[1].value
    /\ Len(dataResult[1].children) = 2

\* The usable options whose whole path is the node value v.
EndingAt(v) ==
    { k \in 1..Len(options) :
        /\ optionParts(options[k], delimiter) # <<>>
        /\ join(optionParts(options[k], delimiter), delimiter) = v }

\* C8: when buildTreeSelectData returns, a node that ends a usable entry
\* carries the label of the last such entry, and every other node carries
\* its own last segment.
C8_TitleIsLastLabelOrSegment ==
    selectPc = "returned" =>
        \A e \in NodesOf(selectResult) :
            LET ending == EndingAt(e.node.value)
                segments == filterBoolean(split(e.node.value, delimiter))
            IN  IF ending # {}
                THEN e.node.title =
                        options[CHOOSE k \in ending : \A j \in ending : j <= k].label
                ELSE e.node.title = segments[Len(segments)]

\* C8 witness: the second entry ends at a node the first entry had made as
\* an ancestor, and that node carries the second entry's label.
C8_Witness ==
    /\ selectPc = "returned"
    /\ Len(options) = 2
    /\ \E e \in NodesOf(selectResult) :
          /\ e.node.children # <<>>
          /\ EndingAt(e.node.value) = {2}
          /\ e.node.title = options[2].label

\* An entry the claim calls unusable: not a string, blank after trimming,
\* or without a non-empty segment.
Unusable(option) ==
    \/ option.type # "string"
    \/ trim(option.value) = <<>>
    \/ \A i \in 1..Len(split(trim(option.value), delimiter)) :
          split(trim(option.value), delimiter)[i] = <<>>

\* C9: the outcome of buildTreeSelectData is the outcome of building from
\* the input without its unusable entries, and build([]) is [].
C9_UnusableEntriesDropped ==
    selectPc \in {"returned", "threw"} =>
        /\ [pc |-> selectPc, tree |-> selectResult] =
              buildTreeSelectData(
                  SelectSeq(options, LAMBDA o : ~Unusable(o)), delimiter)
        /\ options = <<>> => selectPc = "returned" /\ selectResult = <<>>

\* C9 witness: a tree was returned for an input that holds an unusable
\* entry and a usable one.
C9_Witness ==
    /\ selectPc = "returned"
    /\ selectResult # <<>>
    /\ \E k \in 1..Len(options) : Unusable(options[k])

\* C10: neither builder ever throws.  The code breaks this: a path that
\* goes on after a segment named like an inherited property throws.
C10_NeverThrows == selectPc # "threw" /\ dataPc # "threw"

\* The permutations of 1..n, and a sequence rearranged by one.
PermutationsOf(n) ==
    { p \in [1..n -> 1..n] : \A i, j \in 1..n : i # j => p[i] # p[j] }

Permuted(seq, p) == [i \in 1..Len(seq) |-> seq[p[i]]]

\* A tree without its titles.
RECURSIVE WithoutTitles(_)
WithoutTitles(tree) ==
    [i \in 1..Len(tree) |->
        [value |-> tree[i].value, key |-> tree[i].key,
         children |-> WithoutTitles(tree[i].children)]]

\* The nodes of a tree and the parent of each, whatever the sibling order.
NodeSetOf(tree) ==
    { [value |-> e.node.value, key |-> e.node.key, title |-> e.node.title,
       parent |-> e.parent, depth |-> e.depth] : e \in NodesOf(tree) }

\* Two usable entries have the same path and different labels.
ConflictingLabels ==
    \E j, k \in 1..Len(options) :
        /\ optionParts(options[j], delimiter) # <<>>
        /\ optionParts(options[j], delimiter) = optionParts(options[k], delimiter)
        /\ options[j].label # options[k].label

\* A total order on options: by value, then by label, then by type.
OptionBefore(o1, o2) ==
    \/ localeCompare(o1.value, o2.value) < 0
    \/ /\ o1.value = o2.value
       /\ localeCompare(o1.label, o2.label) < 0
    \/ /\ o1.value = o2.value
       /\ o1.label = o2.label
       /\ o1.type = "null"
       /\ o2.type # "null"

\* The input is the ascending arrangement of its entries.  Every
\* arrangement of the same entries is a permutation of this one, so what
\* holds of all permutations of the ascending arrangements holds of all
\* permutations of every input.
OptionsAscending ==
    \A i \in 1..(Len(options) - 1) :
        options[i] = options[i + 1] \/ OptionBefore(options[i], options[i + 1])

ValuesAscending ==
    \A i \in 1..(Len(values) - 1) : localeCompare(values[i], values[i + 1]) <= 0

\* buildTreeData gives every permutation of the input the same nodes under
\* the same parents.
DataPermutationsAgree ==
    dataPc = "returned" /\ ValuesAscending =>
        \A p \in PermutationsOf(Len(values)) :
            NodeSetOf(buildTreeData(Permuted(values, p))) = NodeSetOf(dataResult)

\* C11 as stated: buildTreeSelectData gives every permutation of the input
\* the same outcome, node for node, titles included; buildTreeData gives
\* every permutation the same nodes and parents.
C11_PermutationsGiveEqualTrees ==
    /\ selectPc \in {"returned", "threw"} /\ OptionsAscending =>
          \A p \in PermutationsOf(Len(options)) :
              buildTreeSelectData(Permuted(options, p), delimiter)
                  = [pc |-> selectPc, tree |-> selectResult]
    /\ DataPermutationsAgree

\* C11 amended: for buildTreeSelectData every permutation ends the same way
\* (returns or throws) with the same values, keys and children in the same
\* order, and with the same titles too unless two usable entries with the
\* same path carry different labels; buildTreeData as stated.
C11_PermutationsAgreeUpToLastLabel ==
    /\ selectPc \in {"returned", "threw"} /\ OptionsAscending =>
          \A p \in PermutationsOf(Len(options)) :
              LET other == buildTreeSelectData(Permuted(options, p), delimiter)
              IN  /\ other.pc = selectPc
                  /\ WithoutTitles(other.tree) = WithoutTitles(selectResult)
                  /\ ~ConflictingLabels => other.tree = selectResult
    /\ DataPermutationsAgree

\* C11 witness: a tree of two roots, one with two children, was returned
\* for three paths whose order matters to the sibling order.
C11_Witness ==
    /\ dataPc = "returned"
    /\ ValuesAscending
    /\ Len(values) = 3
    /\ Len(dataResult) = 2
    /\ Len(dataResult[1].children) = 2
    /\ \E p \in PermutationsOf(3) : buildTreeData(Permuted(values, p)) # dataResult

\* The first segment of every input path that has one.
FirstSegmentsOfValues ==
    { filterBoolean(split(values[k], detectDelimiter(values[k])))[1] :
        k \in { n \in 1..Len(values) :
                  filterBoolean(split(values[n], detectDelimiter(values[n]))) # <<>> } }

FirstPartsOfOptions ==
    { optionParts(options[k], delimiter)[1] :
        k \in { n \in 1..Len(options) : optionParts(options[n], delimiter) # <<>> } }

\* C12: when a builder returns, the roots are the distinct first segments
\* of the input paths, one root each and no other root.  A root of
\* buildTreeData is told by its title (always its segment), a root of
\* buildTreeSelectData by its value (its first segment).
\* The code breaks this: buildTreeData(['a/b', 'a.b']) returns the two roots
\* '/a' and 'a' for the one first segment a.
C12_RootsAreFirstSegments ==
    /\ dataPc = "returned" =>
          /\ { dataResult[i].title : i \in 1..Len(dataResult) } = FirstSegmentsOfValues
          /\ Len(dataResult) = Cardinality(FirstSegmentsOfValues)
    /\ selectPc = "returned" =>
          /\ { selectResult[i].value : i \in 1..Len(selectResult) } = FirstPartsOfOptions
          /\ Len(selectResult) = Cardinality(FirstPartsOfOptions)

\* C13: a call of a builder leaves the state outside the call as it was
\* (no title is assigned on the inherited object), and what the call returns
\* is what the builder computes from its own arguments and fresh storage.
\* The code breaks this: buildTreeSelectData([{label: 'X', value:
\* 'constructor'}]) assigns Object.title = 'X'.
C13_BuildersArePure ==
    /\ objectTitle = Undefined
    /\ selectPc = "returned" =>
          selectResult = buildTreeSelectData(options, delimiter).tree
    /\ dataPc = "returned" => dataResult = buildTreeData(values)

segmentsOf(path) == filterBoolean(split(path, detectDelimiter(path)))

KeysEqualValuesAndDistinct(tree) ==
    /\ \A e \in NodesOf(tree) : e.node.key = e.node.value
    /\ \A e1, e2 \in NodesOf(tree) : e1.pos # e2.pos => e1.node.key # e2.node.key

\* C14: in the tree either builder returns, key equals value on every node
\* and no two nodes of the whole tree carry the same key.
C14_KeysEqualValuesAndDistinct ==
    /\ selectPc = "returned" => KeysEqualValuesAndDistinct(selectResult)
    /\ dataPc = "returned" => KeysEqualValuesAndDistinct(dataResult)

\* C14 witness: buildTreeData returned a tree of at least four nodes for a
\* '/' path, a '.' path of two segments and a path with no non-empty
\* segment.
C14_Witness ==
    /\ dataPc = "returned"
    /\ \E i, j, k \in 1..Len(values) :
          /\ includes(values[i], "/") /\ Len(segmentsOf(values[i])) >= 1
          /\ ~includes(values[j], "/") /\ Len(segmentsOf(values[j])) >= 2
          /\ segmentsOf(values[k]) = <<>>
    /\ Cardinality(NodesOf(dataResult)) >= 4

\* C15: after a handleChange, the local value, the filterState.value given
\* to setDataMask and the value given to getSelectExtraFormData (called when
\* the filter has a column) are one value, undefined or an array of strings;
\* setFilterActive got true exactly when it is a non-empty array; and the
\* emptyFilter given to getSelectExtraFormData is true exactly when
\* enableEmptyFilter is on, inverseSelection is off and the value is an
\* empty array or undefined.
C15_ChangeOutputsAgree ==
    lastChange # NotCalled =>
        /\ \/ value = JsUndefined
           \/ /\ value.t = "array"
              /\ \A i \in 1..Len(value.items) : value.items[i].t = "string"
        /\ dataMask.filterState.value = value
        /\ filterActive = JsBoolean(value.t = "array" /\ Len(value.items) > 0)
        /\ formData.col # Undefined =>
              /\ dataMask.extraFormData.value = value
              /\ dataMask.extraFormData.emptyFilter =
                    (/\ formData.enableEmptyFilter
                     /\ ~formData.inverseSelection
                     /\ (value = JsUndefined \/ value = JsArray(<<>>)))

\* C15 witness: with enableEmptyFilter on and inverseSelection off, a change
\* to the empty array set the emptyFilter flag and left the filter inactive.
C15_Witness ==
    /\ lastChange = JsArray(<<>>)
    /\ formData.col # Undefined
    /\ formData.enableEmptyFilter
    /\ ~formData.inverseSelection
    /\ value = JsArray(<<>>)
    /\ dataMask.extraFormData.emptyFilter
    /\ filterActive = JsBoolean(FALSE)

\* The effects of a mount or of a render by the parent have just run.
EffectsHaveRun == lastRender.step \in {"mount", "render"}

ClearAllCompleteCalled ==
    onClearAllComplete # "undefined" =>
        clearAllComplete = [callback |-> onClearAllComplete,
                            nativeFilterId |-> formData.nativeFilterId]

\* C16 as stated: once the effects of a render with a truthy clearAllTrigger
\* have run, value is undefined and onClearAllComplete (when given) was
\* called with the nativeFilterId; in a render without the trigger a changed
\* filterState.value becomes the value; and neither setDataMask nor
\* setFilterActive was called.
C16_TriggerClearsValue ==
    EffectsHaveRun =>
        /\ clearAllTrigger => value = JsUndefined /\ ClearAllCompleteCalled
        /\ ~clearAllTrigger /\ lastRender.sync => value = filterStateValue
        /\ dataMask = NotCalled /\ filterActive = NotCalled

\* C16 amended: the clear happens in the renders in which the clear effect
\* runs (the mount, or a render whose clearAllTrigger, nativeFilterId or
\* onClearAllComplete differs from the render before): if clearAllTrigger
\* is truthy then, value is undefined and onClearAllComplete (when given)
\* was called with the nativeFilterId, also when filterState.value changed
\* in that render.  In every other render a changed filterState.value
\* becomes the value, whether clearAllTrigger is truthy or not.  No render
\* calls setDataMask or setFilterActive.
C16_ClearEffectClearsValue ==
    EffectsHaveRun =>
        /\ clearAllTrigger /\ lastRender.clear =>
              value = JsUndefined /\ ClearAllCompleteCalled
        /\ ~(clearAllTrigger /\ lastRender.clear) /\ lastRender.sync =>
              value = filterStateValue
        /\ dataMask = NotCalled /\ filterActive = NotCalled

\* C16 witness: a render changed filterState.value to an array and raised
\* clearAllTrigger; both effects ran, value is undefined and the callback
\* was called.
C16_Witness ==
    /\ lastRender = [step |-> "render", sync |-> TRUE, clear |-> TRUE]
    /\ clearAllTrigger
    /\ filterStateValue.t = "array"
    /\ value = JsUndefined
    /\ onClearAllComplete # "undefined"
    /\ clearAllComplete = [callback |-> onClearAllComplete,
                           nativeFilterId |-> formData.nativeFilterId]


====
